---- MODULE Spec2Model ----
(***************************************************************************)
(* A model of shrust (src/src/lib.rs): ExecError, Command<T> and Shell<T>. *)
(*                                                                         *)
(* Text (String, &str) is a sequence of character codes, so that trimming, *)
(* whitespace splitting, the BTreeMap's key order and Display formatting   *)
(* are computed and not assumed.  The shared state T is the log of the     *)
(* handler calls made on it: every handler appends its own identity and    *)
(* the argument slice it received, so a handler call is visible in value   *)
(* and "value unchanged" means that no handler ran.                        *)
(***************************************************************************)
EXTENDS Integers, Sequences, FiniteSets, TLC

VARIABLES
    commands,   \* Shell.commands : BTreeMap<String, Command<T>>
    value,      \* Shell.value : T
    prompt,     \* Shell.prompt : String
    stdout,     \* what has been written to io::stdout(), one entry per write
    pc,         \* "idle": the host holds the Shell; "loop": inside run_loop,
                \* at the head of the for; "done": run_loop returned;
                \* "panic": run_loop unwound on a read error
    exit,       \* how run_loop ended: "none", "quit", "eof", "panic"
    nread,      \* lines run_loop has taken from stdin
    ndirect,    \* direct calls of Shell::run and Shell::help by the host
    nregs,      \* calls of set_prompt, register_command and new_command
    loop,       \* the run of run_loop: value as it was at the call, and the
                \* lines taken from stdin so far, in the order read
    \* a record of the last operation performed on the Shell
    last,       \* its name
    arg,        \* its argument: the line of a Shell::run, the Command of a
                \* registration, the String of a set_prompt
    result,     \* the ExecResult of its Shell::run or Shell::help, if any
    pre         \* the Shell, stdout and nread as they were before it

vars == <<commands, value, prompt, stdout, pc, exit, nread, ndirect, nregs, loop,
          last, arg, result, pre>>

----------------------------------------------------------------------------
(* Bounds of the model *)

MaxRegs == 2        \* calls of set_prompt, register_command and new_command
MaxCalls == 2       \* calls of Shell::run and Shell::help, by the host and by run_loop

----------------------------------------------------------------------------
(* Text *)

SP == 32
TAB == 9
NL == 10

\* char::is_whitespace on the codes below 128
WhiteSpace == {9, 10, 11, 12, 13, 32}

\* a variant of IsWhitespace: only the space character separates words
IsSpace(c) == c = SP

IsWhitespace(c) == c \in WhiteSpace

StrQuit == <<113, 117, 105, 116>>              \* "quit"
StrHelp == <<104, 101, 108, 112>>              \* "help"
StrA == <<97>>                                 \* "a"
StrAB == <<97, 32, 98>>                        \* "a b"
StrEmpty == <<>>                               \* ""
StrX == <<120>>                                \* "x"
StrQuits == <<113, 117, 105, 116, 115>>        \* "quits"
StrPrints == <<112, 114, 105, 110, 116, 115>>  \* "prints"
DefaultPrompt == <<62>>                        \* ">"
OtherPrompt == <<36, 32>>                      \* "$ "

\* String's Ord: lexicographic on the codes, a proper prefix first
RECURSIVE StrLess(_, _)
StrLess(s, t) ==
    IF t = <<>> THEN FALSE
    ELSE IF s = <<>> THEN TRUE
    ELSE IF Head(s) # Head(t) THEN Head(s) < Head(t)
    ELSE StrLess(Tail(s), Tail(t))

RECURSIVE TrimStart(_)
TrimStart(s) ==
    IF s # <<>> /\ IsWhitespace(Head(s)) THEN TrimStart(Tail(s)) ELSE s

RECURSIVE TrimEnd(_)
TrimEnd(s) ==
    IF s # <<>> /\ IsWhitespace(s[Len(s)])
    THEN TrimEnd(SubSeq(s, 1, Len(s) - 1))
    ELSE s

\* str::trim
Trim(s) == TrimEnd(TrimStart(s))

\* the length of the longest prefix of s without whitespace
RECURSIVE WordLen(_)
WordLen(s) ==
    IF s = <<>> \/ IsWhitespace(Head(s)) THEN 0 ELSE 1 + WordLen(Tail(s))

\* a variant of SplitWhitespace: split at every single whitespace character, as
\* str::split(char::is_whitespace) does, which yields empty items
RECURSIVE SplitAtEach(_)
SplitAtEach(s) ==
    LET n == WordLen(s)
    IN  IF n = Len(s) THEN <<s>>
        ELSE <<SubSeq(s, 1, n)>> \o SplitAtEach(SubSeq(s, n + 2, Len(s)))

\* str::split_whitespace, collected: the maximal runs of non-whitespace
RECURSIVE SplitWhitespace(_)
SplitWhitespace(s) ==
    LET t == TrimStart(s)
        n == WordLen(t)
    IN  IF t = <<>> THEN <<>>
        ELSE <<SubSeq(t, 1, n)>> \o SplitWhitespace(SubSeq(t, n + 1, Len(t)))

----------------------------------------------------------------------------
(* ExecError, ExecResult *)

Ok == [tag |-> "Ok", arg |-> <<>>]
Quit == [tag |-> "Quit", arg |-> <<>>]
MissingArgs == [tag |-> "MissingArgs", arg |-> <<>>]
UnknownCommand(cmd) == [tag |-> "UnknownCommand", arg |-> cmd]
Other(string) == [tag |-> "Other", arg |-> string]

\* "Unknown Command "
StrUnknownCommand ==
    <<85, 110, 107, 110, 111, 119, 110, 32, 67, 111, 109, 109, 97, 110, 100, 32>>
\* "Not enough arguments"
StrNotEnough ==
    <<78, 111, 116, 32, 101, 110, 111, 117, 103, 104, 32,
      97, 114, 103, 117, 109, 101, 110, 116, 115>>
\* "Quit"
StrQuitDisplay == <<81, 117, 105, 116>>

\* a variant of Display: UnknownCommand is written without the command
DisplayNameless(e) ==
    CASE e.tag = "Quit" -> StrQuitDisplay
      [] e.tag = "UnknownCommand" -> StrUnknownCommand
      [] e.tag = "MissingArgs" -> StrNotEnough
      [] e.tag = "Other" -> e.arg

\* impl fmt::Display for ExecError
Display(e) ==
    CASE e.tag = "Quit" -> StrQuitDisplay
      [] e.tag = "UnknownCommand" -> StrUnknownCommand \o e.arg
      [] e.tag = "MissingArgs" -> StrNotEnough
      [] e.tag = "Other" -> e.arg

----------------------------------------------------------------------------
(* Command<T> *)

\* Command::new
CommandNew(name, description, nargs, func) ==
    [name |-> name, description |-> description, nargs |-> nargs, func |-> func]

\* Command::help: println!("{} :\t{}", self.name, self.description)
CommandHelp(c) == c.name \o <<SP, 58, TAB>> \o c.description \o <<NL>>

\* (self.func)(value, args): the handler records its call in the shared state
CallFunc(func, v, args) == Append(v, [func |-> func, args |-> args])

\* a variant of Command::run: the guard is off by one
CommandRunOffByOne(c, v, args) ==
    IF Len(args) <= c.nargs
    THEN [result |-> MissingArgs, value |-> v, out |-> <<>>]
    ELSE [result |-> Ok, value |-> CallFunc(c.func, v, args), out |-> <<>>]

\* a variant of Command::run: the handler "g" hands back a result of its own
CommandRunHandlerQuits(c, v, args) ==
    IF Len(args) < c.nargs
    THEN [result |-> MissingArgs, value |-> v, out |-> <<>>]
    ELSE [result |-> IF c.func = "g" THEN Quit ELSE Ok,
          value |-> CallFunc(c.func, v, args), out |-> <<>>]

\* Command::run
CommandRun(c, v, args) ==
    IF Len(args) < c.nargs
    THEN [result |-> MissingArgs, value |-> v, out |-> <<>>]
    ELSE [result |-> Ok, value |-> CallFunc(c.func, v, args), out |-> <<>>]

----------------------------------------------------------------------------
(* Shell<T> *)

EmptyMap == [k \in {} |-> k]

\* a variant of BTreeMap::insert: an existing key keeps its value
BTreeInsertKeepOld(m, k, c) ==
    [x \in DOMAIN m \cup {k} |-> IF x \in DOMAIN m THEN m[x] ELSE c]

\* a variant of BTreeMap::insert: the map is left with the new entry alone
BTreeInsertAlone(m, k, c) == [x \in {k} |-> c]

\* BTreeMap::insert: a new key is added, an existing key gets the new value
BTreeInsert(m, k, c) == [x \in DOMAIN m \cup {k} |-> IF x = k THEN c ELSE m[x]]

\* a variant of KeysInOrder: descending
RECURSIVE KeysDescending(_)
KeysDescending(S) ==
    IF S = {} THEN <<>>
    ELSE LET k == CHOOSE x \in S : \A y \in S : x = y \/ StrLess(y, x)
         IN  <<k>> \o KeysDescending(S \ {k})

\* the keys of a BTreeMap in iteration order: ascending by String's Ord
RECURSIVE KeysInOrder(_)
KeysInOrder(S) ==
    IF S = {} THEN <<>>
    ELSE LET k == CHOOSE x \in S : \A y \in S : x = y \/ StrLess(x, y)
         IN  <<k>> \o KeysInOrder(S \ {k})

\* BTreeMap::values
BTreeValues(m) ==
    LET keys == KeysInOrder(DOMAIN m)
    IN  [i \in 1..Len(keys) |-> m[keys[i]]]

\* Shell::help: one Command::help per registry entry, in key order
ShellHelp(cmds) ==
    LET vals == BTreeValues(cmds)
    IN  [result |-> Ok,
         out |-> [i \in 1..Len(vals) |-> [kind |-> "help", text |-> CommandHelp(vals[i])]]]

\* a variant of Shell::run: the registry is looked up before the "quit" arm
ShellRunLookupBeforeQuit(cmds, v, l) ==
    LET splt == SplitWhitespace(Trim(l))
    IN  IF splt = <<>> THEN [result |-> Ok, value |-> v, out |-> <<>>]
        ELSE IF Head(splt) = StrHelp
             THEN [result |-> ShellHelp(cmds).result, value |-> v, out |-> ShellHelp(cmds).out]
        ELSE IF Head(splt) \in DOMAIN cmds
             THEN CommandRun(cmds[Head(splt)], v, Tail(splt))
        ELSE IF Head(splt) = StrQuit
             THEN [result |-> Quit, value |-> v, out |-> <<>>]
        ELSE [result |-> UnknownCommand(Head(splt)), value |-> v, out |-> <<>>]

\* a variant of Shell::run: the registry is looked up before the "help" arm
ShellRunLookupBeforeHelp(cmds, v, l) ==
    LET splt == SplitWhitespace(Trim(l))
    IN  IF splt = <<>> THEN [result |-> Ok, value |-> v, out |-> <<>>]
        ELSE IF Head(splt) = StrQuit
             THEN [result |-> Quit, value |-> v, out |-> <<>>]
        ELSE IF Head(splt) \in DOMAIN cmds
             THEN CommandRun(cmds[Head(splt)], v, Tail(splt))
        ELSE IF Head(splt) = StrHelp
             THEN [result |-> ShellHelp(cmds).result, value |-> v, out |-> ShellHelp(cmds).out]
        ELSE [result |-> UnknownCommand(Head(splt)), value |-> v, out |-> <<>>]

\* a variant of Shell::run: UnknownCommand carries the trimmed line
ShellRunUnknownLine(cmds, v, l) ==
    LET splt == SplitWhitespace(Trim(l))
    IN  IF splt = <<>> THEN [result |-> Ok, value |-> v, out |-> <<>>]
        ELSE IF Head(splt) = StrHelp
             THEN [result |-> ShellHelp(cmds).result, value |-> v, out |-> ShellHelp(cmds).out]
        ELSE IF Head(splt) = StrQuit
             THEN [result |-> Quit, value |-> v, out |-> <<>>]
        ELSE IF Head(splt) \notin DOMAIN cmds
             THEN [result |-> UnknownCommand(Trim(l)), value |-> v, out |-> <<>>]
        ELSE CommandRun(cmds[Head(splt)], v, Tail(splt))

\* a variant of Shell::run: a line that is a registered name as it stands runs
\* that command, before the line is split into words
ShellRunLookupLine(cmds, v, l) ==
    IF l \in DOMAIN cmds THEN CommandRun(cmds[l], v, <<>>)
    ELSE LET splt == SplitWhitespace(Trim(l))
         IN  IF splt = <<>> THEN [result |-> Ok, value |-> v, out |-> <<>>]
             ELSE IF Head(splt) = StrHelp
                  THEN [result |-> ShellHelp(cmds).result, value |-> v,
                        out |-> ShellHelp(cmds).out]
             ELSE IF Head(splt) = StrQuit
                  THEN [result |-> Quit, value |-> v, out |-> <<>>]
             ELSE IF Head(splt) \notin DOMAIN cmds
                  THEN [result |-> UnknownCommand(Head(splt)), value |-> v, out |-> <<>>]
             ELSE CommandRun(cmds[Head(splt)], v, Tail(splt))

\* Shell::run
ShellRun(cmds, v, l) ==
    LET splt == SplitWhitespace(Trim(l))
    IN  IF splt = <<>> THEN [result |-> Ok, value |-> v, out |-> <<>>]
        ELSE IF Head(splt) = StrHelp
             THEN [result |-> ShellHelp(cmds).result, value |-> v, out |-> ShellHelp(cmds).out]
        ELSE IF Head(splt) = StrQuit
             THEN [result |-> Quit, value |-> v, out |-> <<>>]
        ELSE IF Head(splt) \notin DOMAIN cmds
             THEN [result |-> UnknownCommand(Head(splt)), value |-> v, out |-> <<>>]
        ELSE CommandRun(cmds[Head(splt)], v, Tail(splt))

\* Shell::print_prompt: write!(stdout, "{}", self.prompt) and flush
PrintPrompt(p) == <<[kind |-> "prompt", text |-> p]>>

\* println!("{}", e) in run_loop
PrintError(e) == <<[kind |-> "error", text |-> Display(e) \o <<NL>>]>>

----------------------------------------------------------------------------
(* The inputs the host and stdin supply *)

Names == {StrEmpty, StrA, StrAB, StrHelp, StrQuit}
Descriptions == {StrPrints}
Prompts == {DefaultPrompt, OtherPrompt}

\* the handlers the host has, each with the nargs it is registered with
Handlers == {[func |-> "f", nargs |-> 0], [func |-> "g", nargs |-> 1]}

\* the whitespace put before, between and after the words of a line
Plain == [lead |-> <<>>, sep |-> <<SP>>, trail |-> <<>>]
Padded == [lead |-> <<SP, TAB>>, sep |-> <<TAB, SP>>, trail |-> <<SP>>]

RECURSIVE Join(_, _)
Join(words, sep) ==
    IF words = <<>> THEN <<>>
    ELSE IF Len(words) = 1 THEN Head(words)
    ELSE Head(words) \o sep \o Join(Tail(words), sep)

MakeLine(words, lay) == lay.lead \o Join(words, lay.sep) \o lay.trail

BlankLines == {<<>>, <<TAB, SP>>}

\* a line as its words and its layout
LineForms ==
    {[words |-> <<StrA>>, lay |-> Plain],
     [words |-> <<StrA, StrX>>, lay |-> Padded],
     [words |-> <<StrA, StrX, StrQuit>>, lay |-> Plain],
     [words |-> <<StrHelp>>, lay |-> Plain],
     [words |-> <<StrHelp, StrX>>, lay |-> Padded],
     [words |-> <<StrQuit>>, lay |-> Plain],
     [words |-> <<StrQuit, StrX>>, lay |-> Padded],
     [words |-> <<StrQuits>>, lay |-> Padded]}

Lines == BlankLines \cup {MakeLine(f.words, f.lay) : f \in LineForms}

----------------------------------------------------------------------------
(* The operations *)

\* the state an operation starts from, kept for the record of the last operation
Before ==
    [commands |-> commands, value |-> value, prompt |-> prompt,
     stdout |-> stdout, nread |-> nread]

\* Shell::new(value), with the empty log as the host's initial value
Init ==
    /\ commands = EmptyMap
    /\ value = <<>>
    /\ prompt = DefaultPrompt
    /\ stdout = <<>>
    /\ pc = "idle"
    /\ exit = "none"
    /\ nread = 0
    /\ ndirect = 0
    /\ nregs = 0
    /\ loop = [value |-> <<>>, lines |-> <<>>]
    /\ last = "new"
    /\ arg = <<>>
    /\ result = Ok
    /\ pre = Before

\* Shell::set_prompt
SetPrompt(p) ==
    /\ pc = "idle"
    /\ nregs < MaxRegs
    /\ nregs' = nregs + 1
    /\ prompt' = p
    /\ last' = "set_prompt"
    /\ arg' = p
    /\ result' = Ok
    /\ pre' = Before
    /\ UNCHANGED <<commands, value, stdout, pc, exit, nread, ndirect, loop>>

\* a variant of Shell::register_command: callable while run_loop is in progress
RegisterCommandAnyTime(cmd) ==
    /\ pc \in {"idle", "loop"}
    /\ nregs < MaxRegs
    /\ nregs' = nregs + 1
    /\ commands' = BTreeInsert(commands, cmd.name, cmd)
    /\ last' = "register_command"
    /\ arg' = cmd
    /\ result' = Ok
    /\ pre' = Before
    /\ UNCHANGED <<value, prompt, stdout, pc, exit, nread, ndirect, loop>>

\* Shell::register_command: it takes &mut self, which run_loop holds from its
\* call to its return, and a handler is given the value alone, not the Shell
RegisterCommand(cmd) ==
    /\ pc = "idle"
    /\ nregs < MaxRegs
    /\ nregs' = nregs + 1
    /\ commands' = BTreeInsert(commands, cmd.name, cmd)
    /\ last' = "register_command"
    /\ arg' = cmd
    /\ result' = Ok
    /\ pre' = Before
    /\ UNCHANGED <<value, prompt, stdout, pc, exit, nread, ndirect, loop>>

\* Shell::new_command
NewCommand(name, description, nargs, func) ==
    RegisterCommand(CommandNew(name, description, nargs, func))

\* Shell::help, called by the host
Help ==
    /\ pc = "idle"
    /\ ndirect + nread < MaxCalls
    /\ ndirect' = ndirect + 1
    /\ stdout' = stdout \o ShellHelp(commands).out
    /\ result' = ShellHelp(commands).result
    /\ last' = "help"
    /\ arg' = <<>>
    /\ pre' = Before
    /\ UNCHANGED <<commands, value, prompt, pc, exit, nread, nregs, loop>>

\* Shell::run, called by the host
Run(l) ==
    /\ pc = "idle"
    /\ ndirect + nread < MaxCalls
    /\ ndirect' = ndirect + 1
    /\ LET r == ShellRun(commands, value, l)
       IN  /\ value' = r.value
           /\ stdout' = stdout \o r.out
           /\ result' = r.result
    /\ last' = "run"
    /\ arg' = l
    /\ pre' = Before
    /\ UNCHANGED <<commands, prompt, pc, exit, nread, nregs, loop>>

\* Shell::run_loop up to the first read of stdin
RunLoop ==
    /\ pc = "idle"
    /\ pc' = "loop"
    /\ stdout' = stdout \o PrintPrompt(prompt)
    /\ last' = "run_loop"
    /\ arg' = <<>>
    /\ result' = Ok
    /\ pre' = Before
    /\ loop' = [value |-> value, lines |-> <<>>]
    /\ UNCHANGED <<commands, value, prompt, exit, nread, ndirect, nregs>>

\* a variant of LoopBody: Quit is printed like any other error
LoopBodyQuitPrinted(r, p) ==
    IF r.result = Ok THEN [ret |-> FALSE, out |-> r.out \o PrintPrompt(p)]
    ELSE [ret |-> FALSE, out |-> r.out \o PrintError(r.result) \o PrintPrompt(p)]

\* a variant of LoopBody: an error is dropped without being printed
LoopBodySilent(r, p) ==
    IF r.result = Quit THEN [ret |-> TRUE, out |-> r.out]
    ELSE [ret |-> FALSE, out |-> r.out \o PrintPrompt(p)]

\* a variant of LoopBody: no prompt follows an error
LoopBodyNoPromptAfterError(r, p) ==
    IF r.result = Ok THEN [ret |-> FALSE, out |-> r.out \o PrintPrompt(p)]
    ELSE IF r.result = Quit THEN [ret |-> TRUE, out |-> r.out]
    ELSE [ret |-> FALSE, out |-> r.out \o PrintError(r.result)]

\* what the body of the for does with the result r of self.run(&line):
\* whether run_loop returns, and what has been written by the end of the body
LoopBody(r, p) ==
    IF r.result = Ok THEN [ret |-> FALSE, out |-> r.out \o PrintPrompt(p)]
    ELSE IF r.result = Quit THEN [ret |-> TRUE, out |-> r.out]
    ELSE [ret |-> FALSE, out |-> r.out \o PrintError(r.result) \o PrintPrompt(p)]

\* a variant of the iteration: the line is dispatched against the value as it
\* was when run_loop was called, not as the previous iteration left it
LoopLineStale(l) ==
    /\ pc = "loop"
    /\ ndirect + nread < MaxCalls
    /\ nread' = nread + 1
    /\ LET r == ShellRun(commands, loop.value, l)
           b == LoopBody(r, prompt)
       IN  /\ value' = r.value
           /\ result' = r.result
           /\ stdout' = stdout \o b.out
           /\ pc' = IF b.ret THEN "done" ELSE "loop"
           /\ exit' = IF b.ret THEN "quit" ELSE exit
    /\ last' = "loop_line"
    /\ arg' = l
    /\ pre' = Before
    /\ loop' = [loop EXCEPT !.lines = Append(@, l)]
    /\ UNCHANGED <<commands, prompt, ndirect, nregs>>

\* one iteration of the for in run_loop: stdin yields the line l
LoopLine(l) ==
    /\ pc = "loop"
    /\ ndirect + nread < MaxCalls
    /\ nread' = nread + 1
    /\ LET r == ShellRun(commands, value, l)
           b == LoopBody(r, prompt)
       IN  /\ value' = r.value
           /\ result' = r.result
           /\ stdout' = stdout \o b.out
           /\ pc' = IF b.ret THEN "done" ELSE "loop"
           /\ exit' = IF b.ret THEN "quit" ELSE exit
    /\ last' = "loop_line"
    /\ arg' = l
    /\ pre' = Before
    /\ loop' = [loop EXCEPT !.lines = Append(@, l)]
    /\ UNCHANGED <<commands, prompt, ndirect, nregs>>

\* a variant of LoopEof: at end-of-input the for waits for more input
LoopEofWaits ==
    /\ pc = "loop"
    /\ pc' = "loop"
    /\ last' = "loop_eof"
    /\ arg' = <<>>
    /\ result' = Ok
    /\ pre' = Before
    /\ UNCHANGED <<commands, value, prompt, stdout, exit, nread, ndirect, nregs, loop>>

\* stdin is at end-of-input: the for ends and run_loop returns
LoopEof ==
    /\ pc = "loop"
    /\ pc' = "done"
    /\ exit' = "eof"
    /\ last' = "loop_eof"
    /\ arg' = <<>>
    /\ result' = Ok
    /\ pre' = Before
    /\ UNCHANGED <<commands, value, prompt, stdout, nread, ndirect, nregs, loop>>

\* stdin yields an Err: l.unwrap() panics and run_loop unwinds
LoopReadError ==
    /\ pc = "loop"
    /\ pc' = "panic"
    /\ exit' = "panic"
    /\ last' = "loop_panic"
    /\ arg' = <<>>
    /\ result' = Ok
    /\ pre' = Before
    /\ UNCHANGED <<commands, value, prompt, stdout, nread, ndirect, nregs, loop>>

Next ==
    \/ \E p \in Prompts : SetPrompt(p)
    \/ \E n \in Names, d \in Descriptions, h \in Handlers :
           RegisterCommand(CommandNew(n, d, h.nargs, h.func))
    \/ \E n \in Names, d \in Descriptions, h \in Handlers :
           NewCommand(n, d, h.nargs, h.func)
    \/ Help
    \/ \E l \in Lines : Run(l)
    \/ RunLoop
    \/ \E l \in Lines : LoopLine(l)
    \/ LoopEof
    \/ LoopReadError

Spec == Init /\ [][Next]_vars

\* the input of run_loop is a sequence of lines that ends: run_loop is not left
\* waiting at stdin forever without end-of-input arriving; lines and read
\* errors may come or not
SpecFair == Spec /\ WF_vars(LoopEof)

----------------------------------------------------------------------------
(* Vocabulary of the properties *)

\* the last operation was a Shell::run, called by the host or by run_loop
IsDispatch == last \in {"run", "loop_line"}

\* what the last operation wrote
Written == SubSeq(stdout, Len(pre.stdout) + 1, Len(stdout))

\* what run_loop itself writes after a dispatch that did not quit, errors aside
LoopPrompt == IF last = "loop_line" THEN <<[kind |-> "prompt", text |-> prompt]>> ELSE <<>>

IsHelpEntry(e) == e.kind = "help"
IsErrorEntry(e) == e.kind = "error"
IsPromptEntry(e) == e.kind = "prompt"

\* the line "{name} :\t{description}" and its newline
HelpLine(c) == c.name \o <<32, 58, 9>> \o c.description \o <<10>>

\* s comes before t in lexicographic order
LexLess(s, t) ==
    \E i \in 1..(Len(t)) :
        /\ i <= Len(s) + 1
        /\ \A j \in 1..(i - 1) : s[j] = t[j]
        /\ i = Len(s) + 1 \/ s[i] < t[i]

\* the words "help" and "quit" that Shell::run handles itself
BuiltIns == {StrHelp, StrQuit}

----------------------------------------------------------------------------
(* C1: a line whose first word is "quit", with whatever whitespace around it  *)
(* and whatever words after it, makes Shell::run return Err(Quit) without     *)
(* calling a handler and without changing value, also when a command named    *)
(* "quit" is registered.                                                      *)
C1_QuitIsBuiltIn ==
    \A f \in LineForms :
        (IsDispatch /\ arg = MakeLine(f.words, f.lay) /\ Head(f.words) = StrQuit)
            => /\ result = Quit
               /\ value = pre.value
               /\ commands = pre.commands

\* "quit" is registered with nargs 0, a handler has run before, and the line
\* " \tquit\t x " has been dispatched
C1_Witness ==
    /\ last = "run"
    /\ arg = MakeLine(<<StrQuit, StrX>>, Padded)
    /\ StrQuit \in DOMAIN pre.commands
    /\ pre.commands[StrQuit].nargs = 0
    /\ pre.value # <<>>
    /\ result = Quit

----------------------------------------------------------------------------
\* what Command::run is to do with the words of a line for the command c
NargsOutcome(c, args) ==
    IF Len(args) < c.nargs
    THEN /\ result = MissingArgs
         /\ value = pre.value
    ELSE /\ result = Ok
         /\ value = Append(pre.value, [func |-> c.func, args |-> args])

(* C2, as stated: for a command registered with nargs = k, a line naming it   *)
(* with fewer than k argument words returns MissingArgs and calls no handler; *)
(* with k or more it calls the handler once, with all the argument words, and *)
(* returns success.                                                           *)
C2_NargsGuardAnyName ==
    \A f \in LineForms :
        (/\ IsDispatch
         /\ arg = MakeLine(f.words, f.lay)
         /\ Head(f.words) \in DOMAIN pre.commands)
            => NargsOutcome(pre.commands[Head(f.words)], Tail(f.words))

(* C2, amended: the same for a command registered under a name other than     *)
(* "help" and "quit".                                                         *)
C2_NargsGuard ==
    \A f \in LineForms :
        (/\ IsDispatch
         /\ arg = MakeLine(f.words, f.lay)
         /\ Head(f.words) \in DOMAIN pre.commands
         /\ Head(f.words) \notin BuiltIns)
            => NargsOutcome(pre.commands[Head(f.words)], Tail(f.words))

\* "a" is registered with nargs 1 and "a x quit" has been dispatched: the
\* handler has been called with both argument words
C2_Witness ==
    /\ IsDispatch
    /\ arg = MakeLine(<<StrA, StrX, StrQuit>>, Plain)
    /\ StrA \in DOMAIN pre.commands
    /\ pre.commands[StrA].nargs = 1
    /\ result = Ok
    /\ value = Append(pre.value, [func |-> "g", args |-> <<StrX, StrQuit>>])

----------------------------------------------------------------------------
\* what Shell::run is to do with a line whose first word w is not registered
UnknownOutcome(w) ==
    /\ result = UnknownCommand(w)
    /\ value = pre.value
    /\ commands = pre.commands

(* C3, as stated: a line whose first word w is not registered returns         *)
(* UnknownCommand(w); no handler is called, value and the registry are        *)
(* unchanged.                                                                 *)
C3_UnknownAnyWord ==
    \A f \in LineForms :
        (/\ IsDispatch
         /\ arg = MakeLine(f.words, f.lay)
         /\ Head(f.words) \notin DOMAIN pre.commands)
            => UnknownOutcome(Head(f.words))

(* C3, amended: the same for a first word w other than "help" and "quit".     *)
C3_Unknown ==
    \A f \in LineForms :
        (/\ IsDispatch
         /\ arg = MakeLine(f.words, f.lay)
         /\ Head(f.words) \notin DOMAIN pre.commands
         /\ Head(f.words) \notin BuiltIns)
            => UnknownOutcome(Head(f.words))

\* "a x quit" has been dispatched to a Shell that has commands, none of them
\* named "a"
C3_Witness ==
    /\ IsDispatch
    /\ arg = MakeLine(<<StrA, StrX, StrQuit>>, Plain)
    /\ pre.commands # EmptyMap
    /\ StrA \notin DOMAIN pre.commands
    /\ result = UnknownCommand(StrA)

----------------------------------------------------------------------------
(* C4: an empty line, or one of whitespace only, makes Shell::run return      *)
(* success: no handler is called, value is unchanged and Shell::run writes    *)
(* nothing (in run_loop the prompt alone follows).                            *)
C4_BlankLine ==
    (IsDispatch /\ \A i \in 1..Len(arg) : arg[i] \in WhiteSpace)
        => /\ result = Ok
           /\ value = pre.value
           /\ commands = pre.commands
           /\ Written = LoopPrompt

\* the line "\t " has been dispatched by the host while a command is
\* registered under the empty name
C4_Witness ==
    /\ last = "run"
    /\ arg = <<TAB, SP>>
    /\ StrEmpty \in DOMAIN pre.commands
    /\ pre.commands[StrEmpty].nargs = 0
    /\ result = Ok
    /\ stdout = pre.stdout

----------------------------------------------------------------------------
(* C5: a line whose first word is "help" makes Shell::run list the registered *)
(* commands and return success; the registry is not looked up, so a command   *)
(* named "help" is not run and its nargs is not checked, and value is         *)
(* unchanged.                                                                 *)
C5_HelpIsBuiltIn ==
    \A f \in LineForms :
        (IsDispatch /\ arg = MakeLine(f.words, f.lay) /\ Head(f.words) = StrHelp)
            => /\ result = Ok
               /\ value = pre.value
               /\ commands = pre.commands
               /\ Len(Written) = Cardinality(DOMAIN commands) + Len(LoopPrompt)
               /\ \A n \in DOMAIN commands :
                      \E i \in 1..Cardinality(DOMAIN commands) :
                          Written[i] = [kind |-> "help", text |-> HelpLine(commands[n])]

\* "help" is registered with nargs 1 and the line "help" has been dispatched
C5_Witness ==
    /\ IsDispatch
    /\ arg = MakeLine(<<StrHelp>>, Plain)
    /\ StrHelp \in DOMAIN pre.commands
    /\ pre.commands[StrHelp].nargs = 1
    /\ Cardinality(DOMAIN pre.commands) = 2
    /\ result = Ok

----------------------------------------------------------------------------
(* C6: whatever has been registered, Shell::help returns success and writes   *)
(* exactly one line per registered name, the names in ascending               *)
(* lexicographic order: line i is the line of the name that has i - 1         *)
(* registered names before it.                                                *)
C6_HelpSorted ==
    last = "help"
        => /\ result = Ok
           /\ Len(Written) = Cardinality(DOMAIN commands)
           /\ \A i \in 1..Len(Written) :
                  \E n \in DOMAIN commands :
                      /\ Written[i] = [kind |-> "help", text |-> HelpLine(commands[n])]
                      /\ Cardinality({m \in DOMAIN commands : LexLess(m, n)}) = i - 1

\* Shell::help has listed "a" and then "a b"
C6_Witness ==
    /\ last = "help"
    /\ DOMAIN commands = {StrAB, StrA}
    /\ Len(Written) = 2
    /\ Written[1].text = HelpLine(commands[StrA])
    /\ Written[2].text = HelpLine(commands[StrAB])

----------------------------------------------------------------------------
----------------------------------------------------------------------------
(* C8: when the Shell::run of a line read by run_loop returns Quit, run_loop  *)
(* returns at once: it writes nothing for that line, neither an error text    *)
(* nor the prompt, and once run_loop has returned on a quit that line stays   *)
(* the last operation: no further line is read or dispatched.                 *)
C8_QuitEndsLoop ==
    /\ (last = "loop_line" /\ result = Quit)
           => /\ pc = "done"
              /\ exit = "quit"
              /\ stdout = pre.stdout
              /\ value = pre.value
              /\ nread = pre.nread + 1
    /\ exit = "quit" => (last = "loop_line" /\ result = Quit)

\* run_loop has returned on a quit line with a command named "quit" registered,
\* while more lines could have been read
C8_Witness ==
    /\ pc = "done"
    /\ exit = "quit"
    /\ StrQuit \in DOMAIN commands
    /\ ndirect + nread < MaxCalls

----------------------------------------------------------------------------
(* C9: in run_loop, a Shell::run that returns an error other than Quit has    *)
(* that error's Display text written exactly once, and the loop goes on to    *)
(* the next line; a Shell::run that succeeds has no error text written.       *)
C9_ErrorsPrinted ==
    last = "loop_line"
        => /\ result \notin {Ok, Quit}
               => /\ SelectSeq(Written, IsErrorEntry)
                        = <<[kind |-> "error", text |-> Display(result) \o <<10>>]>>
                  /\ pc = "loop"
                  /\ exit = "none"
           /\ result = Ok
               => /\ SelectSeq(Written, IsErrorEntry) = <<>>
                  /\ pc = "loop"

\* run_loop has printed the error of one line and then read the next line,
\* which has been printed as an UnknownCommand
C9_Witness ==
    /\ last = "loop_line"
    /\ pre.nread = 1
    /\ result = UnknownCommand(StrQuits)
    /\ Len(SelectSeq(pre.stdout, IsErrorEntry)) = 1
    /\ Len(SelectSeq(stdout, IsErrorEntry)) = 2

----------------------------------------------------------------------------
(* C10: run_loop writes the prompt once before it reads the first line and    *)
(* once after each line that did not quit, after the error text of that line  *)
(* if there is one: the prompts written number 1 plus the lines processed     *)
(* that did not quit, and whenever run_loop is about to read, the prompt is   *)
(* the last thing written.                                                    *)
C10_Prompts ==
    /\ pc # "idle"
           => Len(SelectSeq(stdout, IsPromptEntry))
                  = 1 + nread - (IF exit = "quit" THEN 1 ELSE 0)
    /\ pc = "loop"
           => /\ stdout # <<>>
              /\ stdout[Len(stdout)] = [kind |-> "prompt", text |-> prompt]
    /\ (last = "loop_line" /\ result # Quit)
           => /\ Len(SelectSeq(Written, IsPromptEntry)) = 1
              /\ IsPromptEntry(Written[Len(Written)])

\* run_loop has processed two lines, the second an error, under the prompt
\* "$ ", and has written three prompts
C10_Witness ==
    /\ pc = "loop"
    /\ nread = 2
    /\ prompt = OtherPrompt
    /\ result = MissingArgs
    /\ Len(SelectSeq(stdout, IsPromptEntry)) = 3

----------------------------------------------------------------------------
\* a registration is possible in the current state
CanRegister ==
    ENABLED (\E n \in Names, d \in Descriptions, h \in Handlers :
                 RegisterCommand(CommandNew(n, d, h.nargs, h.func)))

\* the operations of run_loop
LoopOps == {"run_loop", "loop_line", "loop_eof", "loop_panic"}

(* C11, as stated: a command can be registered at any time, also while        *)
(* run_loop is in progress.                                                   *)
C11_RegisterDuringLoop ==
    (pc \in {"idle", "loop"} /\ nregs < MaxRegs) => CanRegister

(* C11, amended: a command can be registered at any time before run_loop is   *)
(* called, and none while it is in progress: from the call of run_loop on,    *)
(* every operation is run_loop's own and leaves the registry as it was, so    *)
(* the lines are dispatched against the commands registered before the call.  *)
C11_RegisterBeforeLoop ==
    /\ (pc = "idle" /\ nregs < MaxRegs) => CanRegister
    /\ pc # "idle"
           => /\ ~CanRegister
              /\ last \in LoopOps
              /\ commands = pre.commands

\* run_loop has dispatched "a x quit" to a command registered before its call,
\* and one more registration would have been within the bound
C11_Witness ==
    /\ pc = "loop"
    /\ last = "loop_line"
    /\ arg = MakeLine(<<StrA, StrX, StrQuit>>, Plain)
    /\ StrA \in DOMAIN commands
    /\ result = Ok
    /\ value # pre.value
    /\ nregs < MaxRegs

----------------------------------------------------------------------------
\* the line of each form
LineOf == [f \in LineForms |-> MakeLine(f.words, f.lay)]

\* the words of each line of Lines, as the line was built
WordsTable ==
    [l \in Lines |-> IF l \in BlankLines THEN <<>>
                     ELSE (CHOOSE f \in LineForms : LineOf[f] = l).words]

WordsOf(l) == WordsTable[l]

\* the handler calls of the lines ls applied to v in order, up to the first
\* line whose first word is "quit": a line counts when its first word is a name
\* of cmds outside reserved and it carries at least nargs argument words
RECURSIVE ApplyLines(_, _, _, _)
ApplyLines(cmds, v, ls, reserved) ==
    IF ls = <<>> THEN v
    ELSE LET w == WordsOf(Head(ls))
         IN  IF w = <<>> THEN ApplyLines(cmds, v, Tail(ls), reserved)
             ELSE IF Head(w) = StrQuit THEN v
             ELSE IF /\ Head(w) \in DOMAIN cmds
                     /\ Head(w) \notin reserved
                     /\ Len(Tail(w)) >= cmds[Head(w)].nargs
                  THEN ApplyLines(cmds,
                                  Append(v, [func |-> cmds[Head(w)].func,
                                             args |-> Tail(w)]),
                                  Tail(ls), reserved)
                  ELSE ApplyLines(cmds, v, Tail(ls), reserved)

(* C12, as stated: run_loop dispatches the lines one at a time in input       *)
(* order, and when it ends value is the value it was called with after the    *)
(* handlers of exactly the lines before the first quit line that name a       *)
(* registered command and pass its nargs guard, applied in input order.       *)
C12_SequentialAnyName ==
    pc = "done" => value = ApplyLines(commands, loop.value, loop.lines, {})

(* C12, amended: the same, counting only the lines that name a command        *)
(* registered under a name other than "help" and "quit"; and after every      *)
(* iteration value is already that of the lines read so far, each line read   *)
(* being dispatched before the next is read.                                  *)
C12_Sequential ==
    /\ nread = Len(loop.lines)
    /\ pc \in {"loop", "done"} =>
           value = ApplyLines(commands, loop.value, loop.lines, BuiltIns)
    /\ last = "loop_line" =>
           /\ loop.lines = Append(SubSeq(loop.lines, 1, pre.nread), arg)
           /\ pre.value = ApplyLines(commands, loop.value,
                                     SubSeq(loop.lines, 1, pre.nread), BuiltIns)

\* run_loop has ended at end-of-input after the lines "a" and " a  x ", with
\* "a" registered: the handler has been called twice, in that order
C12_Witness ==
    /\ pc = "done"
    /\ exit = "eof"
    /\ loop.lines = <<MakeLine(<<StrA>>, Plain), MakeLine(<<StrA, StrX>>, Padded)>>
    /\ StrA \in DOMAIN commands
    /\ commands[StrA].nargs = 0
    /\ value = loop.value \o <<[func |-> "f", args |-> <<>>],
                               [func |-> "f", args |-> <<StrX>>]>>

----------------------------------------------------------------------------
\* the results Shell::run may hand back
DispatchTags == {"Ok", "MissingArgs", "UnknownCommand", "Quit"}

(* C13: Command::run returns only success or MissingArgs; every dispatch      *)
(* returns success, MissingArgs, UnknownCommand or Quit, never Other; Quit is *)
(* returned only for a line whose first word is "quit"; so a dispatch that    *)
(* called a handler returns success and does not end run_loop.                *)
C13_Results ==
    /\ \A n \in DOMAIN commands : \A args \in {<<>>, <<StrX>>, <<StrX, StrQuit>>} :
           CommandRun(commands[n], value, args).result \in {Ok, MissingArgs}
    /\ IsDispatch =>
           /\ result.tag \in DispatchTags
           /\ result = Quit => /\ WordsOf(arg) # <<>>
                               /\ Head(WordsOf(arg)) = StrQuit
           /\ result.tag = "UnknownCommand" =>
                  /\ WordsOf(arg) # <<>>
                  /\ result.arg = Head(WordsOf(arg))
           /\ value # pre.value => result = Ok
    /\ (last = "loop_line" /\ value # pre.value) => pc = "loop"
    /\ (last = "loop_line" /\ pc = "done") =>
           /\ result = Quit
           /\ value = pre.value
    /\ ~IsDispatch => result = Ok

\* run_loop has dispatched " a  x " with "a" registered for the handler "g":
\* the handler has been called, the result is success and the loop goes on
C13_Witness ==
    /\ last = "loop_line"
    /\ arg = MakeLine(<<StrA, StrX>>, Padded)
    /\ StrA \in DOMAIN commands
    /\ commands[StrA].func = "g"
    /\ value = Append(pre.value, [func |-> "g", args |-> <<StrX>>])
    /\ result = Ok
    /\ pc = "loop"

----------------------------------------------------------------------------
\* ways of laying the same words out on a line
Layouts ==
    {Plain, Padded, [lead |-> <<NL>>, sep |-> <<SP, SP, SP>>, trail |-> <<TAB, NL>>]}

\* the words of each form, and no words, in each layout
Relaid == [w \in {f.words : f \in LineForms} \cup {<<>>} |->
              {MakeLine(w, lay) : lay \in Layouts}]

(* C14: a dispatch depends only on the words of the line: from the registry   *)
(* and value it started from, the same words in any other layout give the     *)
(* same result and the same value; and a handler that is called receives the  *)
(* words after the command word, in order, without the command word.          *)
C14_TokensOnly ==
    /\ \A f \in LineForms :
           (IsDispatch /\ arg = LineOf[f]) =>
               /\ \A l \in Relaid[f.words] :
                      LET r == ShellRun(pre.commands, pre.value, l)
                      IN  r.result = result /\ r.value = value
               /\ value # pre.value =>
                      /\ Head(f.words) \in DOMAIN pre.commands
                      /\ value = Append(pre.value,
                                        [func |-> pre.commands[Head(f.words)].func,
                                         args |-> Tail(f.words)])
    /\ (IsDispatch /\ arg \in BlankLines) =>
           \A l \in Relaid[<<>>] :
               LET r == ShellRun(pre.commands, pre.value, l)
               IN  r.result = result /\ r.value = value

\* " a  x " has been dispatched with "a" registered for the handler "f": the
\* handler has received the one word "x"
C14_Witness ==
    /\ IsDispatch
    /\ arg = MakeLine(<<StrA, StrX>>, Padded)
    /\ StrA \in DOMAIN pre.commands
    /\ pre.commands[StrA].func = "f"
    /\ value = Append(pre.value, [func |-> "f", args |-> <<StrX>>])

----------------------------------------------------------------------------
\* w occurs in t as a run of consecutive characters
Contains(t, w) ==
    \E i \in 0..(Len(t) - Len(w)) : SubSeq(t, i + 1, i + Len(w)) = w

\* messages for Other, and names for UnknownCommand
Messages == {StrEmpty, StrA, StrAB, StrQuit, StrPrints}

\* the Display texts: "Quit" for Quit, a text containing the name for
\* UnknownCommand, msg itself for Other(msg)
DisplayTexts ==
    /\ Display(Quit) = <<81, 117, 105, 116>>
    /\ \A n \in Messages : Contains(Display(UnknownCommand(n)), n)
    /\ \A m \in Messages : Display(Other(m)) = m

\* one message for MissingArgs, whatever the command and the arguments
MissingArgsText ==
    (last = "loop_line" /\ result = MissingArgs) =>
        SelectSeq(Written, IsErrorEntry)
            = <<[kind |-> "error",
                 text |-> <<78, 111, 116, 32, 101, 110, 111, 117, 103, 104, 32,
                            97, 114, 103, 117, 109, 101, 110, 116, 115, 10>>]>>

\* run_loop has written an error text in which w occurs
ErrorNaming(w) ==
    \E i \in DOMAIN Written :
        /\ IsErrorEntry(Written[i])
        /\ Contains(Written[i].text, w)

(* C15, as stated: the Display texts are as above, and the text run_loop      *)
(* writes for a line whose first word w is not registered contains w.         *)
C15_DisplayAnyWord ==
    /\ DisplayTexts
    /\ MissingArgsText
    /\ \A f \in LineForms :
           (/\ last = "loop_line"
            /\ arg = LineOf[f]
            /\ Head(f.words) \notin DOMAIN pre.commands)
               => ErrorNaming(Head(f.words))

(* C15, amended: the Display texts are as above, and the text run_loop writes *)
(* for a line whose first word w is not registered and is neither "help" nor  *)
(* "quit" contains w.                                                         *)
C15_Display ==
    /\ DisplayTexts
    /\ MissingArgsText
    /\ \A f \in LineForms :
           (/\ last = "loop_line"
            /\ arg = LineOf[f]
            /\ Head(f.words) \notin DOMAIN pre.commands
            /\ Head(f.words) \notin BuiltIns)
               => ErrorNaming(Head(f.words))

\* run_loop has read "a x quit" with nothing registered under "a": an error
\* text with "a" in it has been written
C15_Witness ==
    /\ last = "loop_line"
    /\ arg = MakeLine(<<StrA, StrX, StrQuit>>, Plain)
    /\ StrA \notin DOMAIN pre.commands
    /\ result = UnknownCommand(StrA)
    /\ ErrorNaming(StrA)

----------------------------------------------------------------------------
\* the first word of the line l is "quit"
IsQuitLine(l) == WordsOf(l) # <<>> /\ Head(WordsOf(l)) = StrQuit

\* the lines run_loop has read, but for the last one
EarlierLines == SubSeq(loop.lines, 1, Len(loop.lines) - 1)

\* where run_loop stands and how it has ended agree with the lines it has read
ReturnsAtQuitOrEof ==
    /\ nread = Len(loop.lines)
    /\ pc = "loop" => \A i \in DOMAIN loop.lines : ~IsQuitLine(loop.lines[i])
    /\ (pc = "done" /\ exit = "quit") =>
           /\ loop.lines # <<>>
           /\ IsQuitLine(loop.lines[Len(loop.lines)])
           /\ \A i \in DOMAIN EarlierLines : ~IsQuitLine(EarlierLines[i])
    /\ (pc = "done" /\ exit = "eof") =>
           \A i \in DOMAIN loop.lines : ~IsQuitLine(loop.lines[i])
    /\ pc = "done" => exit \in {"quit", "eof"}

(* C16: run_loop, once called, comes to an end when stdin yields no error: it *)
(* returns at the first line whose first word is "quit", or at end-of-input   *)
(* when no line read had "quit" as its first word, each line read having been *)
(* dispatched once.                                                           *)
C16_Terminates ==
    /\ []ReturnsAtQuitOrEof
    /\ (pc = "loop") ~> (pc = "done" \/ exit = "panic")

\* run_loop has returned at the line " quit  x " after dispatching "a x quit"
C16_Witness ==
    /\ pc = "done"
    /\ exit = "quit"
    /\ loop.lines = <<MakeLine(<<StrA, StrX, StrQuit>>, Plain),
                      MakeLine(<<StrQuit, StrX>>, Padded)>>

----------------------------------------------------------------------------
(* C17: each operation changes only its own part of the Shell. Shell::run and *)
(* run_loop leave the registry and the prompt as they were, and change value  *)
(* only by a handler call that passed the nargs guard; register_command and   *)
(* new_command change only the registry entry of the given name; set_prompt   *)
(* changes only the prompt; help changes nothing.                             *)
C17_Frames ==
    /\ last \in {"run", "loop_line", "run_loop", "loop_eof", "loop_panic"} =>
           /\ commands = pre.commands
           /\ prompt = pre.prompt
    /\ last \in {"run_loop", "loop_eof", "loop_panic"} => value = pre.value
    /\ (IsDispatch /\ value # pre.value) =>
           /\ result = Ok
           /\ WordsOf(arg) # <<>>
           /\ Head(WordsOf(arg)) \in DOMAIN pre.commands
           /\ Len(Tail(WordsOf(arg))) >= pre.commands[Head(WordsOf(arg))].nargs
           /\ Len(value) = Len(pre.value) + 1
    /\ last = "register_command" =>
           /\ value = pre.value
           /\ prompt = pre.prompt
           /\ stdout = pre.stdout
           /\ DOMAIN commands = DOMAIN pre.commands \cup {arg.name}
           /\ commands[arg.name] = arg
           /\ \A n \in DOMAIN pre.commands \ {arg.name} : commands[n] = pre.commands[n]
    /\ last = "set_prompt" =>
           /\ prompt = arg
           /\ commands = pre.commands
           /\ value = pre.value
           /\ stdout = pre.stdout
    /\ last = "help" =>
           /\ commands = pre.commands
           /\ value = pre.value
           /\ prompt = pre.prompt

\* "a b" has been registered next to "a", which is as it was
C17_Witness ==
    /\ last = "register_command"
    /\ arg.name = StrAB
    /\ DOMAIN pre.commands = {StrA}
    /\ DOMAIN commands = {StrA, StrAB}
    /\ commands[StrA] = pre.commands[StrA]

----------------------------------------------------------------------------
\* a name that is one word and not a built-in word
GoodName(n) ==
    /\ n # <<>>
    /\ \A i \in DOMAIN n : n[i] \notin WhiteSpace
    /\ n \notin BuiltIns

\* lines to try a name with: the lines of Lines, the name as it stands, the
\* name with an argument, and the same between whitespace
TryLines(n) ==
    Lines \cup {n, n \o <<SP>> \o StrX, <<SP, TAB>> \o n \o <<SP>> \o StrX \o <<NL>>}

\* the commands that can be registered
AllCommands ==
    {CommandNew(n, d, h.nargs, h.func) : n \in Names, d \in Descriptions, h \in Handlers}

\* for each command, whether some line makes Shell::run call its handler when it
\* is the one command registered
Reachable ==
    [c \in AllCommands |->
        \E l \in TryLines(c.name) :
            ShellRun([x \in {c.name} |-> c], <<>>, l).value # <<>>]

\* every name can be registered now
AnyNameAccepted ==
    \A n \in Names :
        ENABLED RegisterCommand(CommandNew(n, StrPrints, 0, "f"))

(* C18: register_command takes any name; the handler of a registered command  *)
(* can be reached by a line if and only if its name is a non-empty word       *)
(* without whitespace other than "help" and "quit"; a command under any other *)
(* name is never called, and is all the same kept in the registry and listed  *)
(* by help.                                                                   *)
C18_Reachability ==
    /\ (pc = "idle" /\ nregs < MaxRegs) => AnyNameAccepted
    /\ last = "register_command" =>
           arg.name \in DOMAIN commands /\ commands[arg.name] = arg
    /\ \A n \in DOMAIN commands : Reachable[commands[n]] <=> GoodName(n)
    /\ (IsDispatch /\ value # pre.value) =>
           /\ GoodName(Head(WordsOf(arg)))
           /\ value[Len(value)].func = pre.commands[Head(WordsOf(arg))].func
    /\ last = "help" =>
           \A n \in DOMAIN commands :
               \E i \in DOMAIN Written :
                   Written[i] = [kind |-> "help", text |-> HelpLine(commands[n])]

\* help has listed the commands registered under "" and "a b", which no line
\* reaches
C18_Witness ==
    /\ last = "help"
    /\ DOMAIN commands = {StrEmpty, StrAB}
    /\ Len(Written) = 2
    /\ ~Reachable[commands[StrEmpty]]
    /\ ~Reachable[commands[StrAB]]

====
